---- MODULE Spec2Model ----
(***************************************************************************)
(* custom-tar: a TLV archive container with content deduplication.         *)
(* The model follows src/Archive.cpp lines 393-803 (the current version of *)
(* Archive::create / extract / list and their helpers) byte by byte: the   *)
(* container is a sequence of bytes, a header is the 8 bytes of struct     *)
(* TlvEntry, and the std::ifstream over the archive is a record with its   *)
(* position and its eofbit / failbit.                                      *)
(***************************************************************************)
EXTENDS Integers, Sequences, FiniteSets, TLC

VARIABLES
    wide,       \* the writer on large inputs: true position and what it wrote
    tree,       \* the input tree as recursive_directory_iterator yields it
    m_files,    \* Archive::m_files, the fingerprint index of the object
    archive,    \* the bytes of the archive file on disk
    present,    \* whether the archive file exists and can be opened
    pc,         \* which operation of the Archive object is running, and where
    walk,       \* create: index in tree of the next entry of the walk
    stream,     \* extract / list: the std::ifstream archiveFile
    entry,      \* extract / list: the last top-level header decoded, and where
    files,      \* extract: the local std::map<uint32_t, File> files
    done,       \* extractFiles: the keys of files already iterated over
    outDirs,    \* output root: the directories present under it
    outFiles,   \* output root: the regular files under it, path -> bytes
    denied,     \* output root: paths that cannot be opened for writing
    errors,     \* what extract reported on std::cerr, in order
    listed,     \* what list reported on std::cout, in order
    ret,        \* the return value of the last finished operation
    creates,    \* number of create calls begun on this Archive object
    extracts,   \* number of extract calls begun
    lists,      \* number of list calls begun
    argv,       \* main: argv[1], argv[2], ... of the run
    exitCode    \* main: the value main has returned, << >> before it has

vars == << wide, tree, m_files, archive, present, pc, walk, stream, entry, files,
           done, outDirs, outFiles, denied, errors, listed, ret,
           creates, extracts, lists, argv, exitCode >>

-----------------------------------------------------------------------------
(* Bounds of the model.                                                    *)

\* longest walk (directories and files) of an input tree
MaxEntries == 4
\* create calls on one Archive object
MaxCreates == 2
\* extract calls on one Archive object
MaxExtracts == 1
\* list calls on one Archive object
MaxLists == 1
\* The code's copy and compare buffers hold 4096 bytes (Archive.cpp:550,
\* 638, 766).  The model scales the buffer down so that files of several
\* chunks stay a few bytes long.
BufSize == 2
\* The digest is 64 bits wide in the code; the model folds it into FpMod
\* values so that colliding contents exist among short files.
FpMod == 3

-----------------------------------------------------------------------------
(* Bytes, integers and tags.                                               *)

\* sizeof(TlvEntry): two packed uint32_t
HeaderSize == 8
\* sizeof(fileEntry.offset), the payload of a DATA_REF sub-record
RefSize == 4

\* a uint32_t in the host's (little-endian) byte order
LE32(v) == << v % 256, (v \div 256) % 256, (v \div 65536) % 256,
              (v \div 16777216) % 256 >>

\* the uint32_t that four bytes in memory hold
FromLE32(b) == b[1] + 256 * b[2] + 65536 * b[3] + 16777216 * b[4]

\* a uint32_t of any value, as its two 16-bit halves: the counter of
\* readFile is kept in this form, so that its sum wraps at 2^32
U32(n) == [hi |-> n \div 65536, lo |-> n % 65536]

\* the uint32_t that four bytes in memory hold, in the same form
U32Of(b) == [hi |-> b[3] + 256 * b[4], lo |-> b[1] + 256 * b[2]]

\* uint32_t addition: the sum modulo 2^32
Add32(x, y) ==
    [hi |-> (x.hi + y.hi + (x.lo + y.lo) \div 65536) % 65536,
     lo |-> (x.lo + y.lo) % 65536]

\* operator< on uint32_t
Less32(x, y) == x.hi < y.hi \/ (x.hi = y.hi /\ x.lo < y.lo)

\* the value of a uint32_t that is below 2^31
ToInt(x) == x.hi * 65536 + x.lo

\* a count of bytes or a stream position of any size (std::uintmax_t,
\* std::streamoff): top * 2^32 + hi * 2^16 + lo
Wide(top, n) == [top |-> top, hi |-> n \div 65536, lo |-> n % 65536]

AddWide(x, y) ==
    LET lo == x.lo + y.lo
        hi == x.hi + y.hi + lo \div 65536
    IN  [top |-> x.top + y.top + hi \div 65536,
         hi  |-> hi % 65536,
         lo  |-> lo % 65536]

\* a uint32_t as a count of any size
Widen(x) == [top |-> 0, hi |-> x.hi, lo |-> x.lo]

\* static_cast<uint32_t>(v): the value modulo 2^32
Cast32(v) == [hi |-> v.hi, lo |-> v.lo]

\* operator"" _tag: four characters packed most significant first
TagOf(str) == str[1] * 16777216 + str[2] * 65536 + str[3] * 256 + str[4]

FILE_TAG      == TagOf(<<70, 73, 76, 69>>)
DIRECTORY_TAG == TagOf(<<68, 73, 82, 95>>)
NAME_TAG      == TagOf(<<78, 65, 77, 69>>)
DATA_TAG      == TagOf(<<68, 65, 84, 65>>)
DATA_REF_TAG  == TagOf(<<68, 65, 84, 82>>)

\* the bytes of a struct TlvEntry { Tag_t length; uint32_t tag; } PACKED
TlvEntry(tag, length) == LE32(length) \o LE32(tag)

\* struct File with its default member initialisers
File(name, size, offset, dataOffset, dataOffsetRef) ==
    [name |-> name, size |-> size, offset |-> offset,
     dataOffset |-> dataOffset, dataOffsetRef |-> dataOffsetRef]

NoFile == File(<<>>, 0, 0, 0, 0)

Min(a, b) == IF a < b THEN a ELSE b

RECURSIVE SumSeq(_)
SumSeq(s) == IF s = <<>> THEN 0 ELSE Head(s) + SumSeq(Tail(s))

Range(s) == { s[i] : i \in 1..Len(s) }

-----------------------------------------------------------------------------
(* std::ifstream: position, eofbit, failbit, and whether the filebuf is    *)
(* open.  The bytes it reads are passed beside it.                         *)

NewStream == [pos |-> 0, eof |-> FALSE, fail |-> FALSE, open |-> TRUE]

Good(s) == ~s.eof /\ ~s.fail

\* istream::read(buf, n): the stream after it and the bytes it stored.
\* A stream that is not good reads nothing; a read that gets fewer than n
\* bytes sets eofbit and failbit.
Read(data, s, n) ==
    IF ~Good(s)
    THEN [s |-> [s EXCEPT !.fail = TRUE], got |-> <<>>]
    ELSE LET avail == IF s.open /\ s.pos < Len(data)
                      THEN Len(data) - s.pos ELSE 0
             m     == Min(n, avail)
         IN  [s   |-> [s EXCEPT !.pos = s.pos + m,
                                !.eof = (m < n),
                                !.fail = (m < n)],
              got |-> SubSeq(data, s.pos + 1, s.pos + m)]

\* istream::seekg(off, std::ios::cur): clears eofbit, then moves unless
\* seekg(off, std::ios::cur) that leaves the position where it is
SeekCur_stay(s, off) == [s EXCEPT !.eof = FALSE]

\* seekg(off, std::ios::cur) that moves back to where the header it
\* follows began
SeekCur_rewind(s, off) ==
    [s EXCEPT !.eof = FALSE, !.pos = s.pos - HeaderSize]

\* fail(); a position past the end of the file is accepted.
SeekCur(s, off) ==
    IF s.fail THEN [s EXCEPT !.eof = FALSE]
    ELSE [s EXCEPT !.eof = FALSE, !.pos = s.pos + off]

\* istream::seekg(pos, std::ios::beg)
SeekBeg(s, p) ==
    IF s.fail THEN [s EXCEPT !.eof = FALSE]
    ELSE [s EXCEPT !.eof = FALSE, !.pos = p]

\* ios::clear()
Clear(s) == [s EXCEPT !.eof = FALSE, !.fail = FALSE]

\* ifstream::close(): closing a stream that is not open sets failbit
Close(s) ==
    IF s.open THEN [s EXCEPT !.open = FALSE] ELSE [s EXCEPT !.fail = TRUE]

-----------------------------------------------------------------------------
(* The input tree.  An entry of the walk is a directory or a regular file  *)
(* with its full path, its bytes, and whether it can be opened.            *)

\* the input path given to create: "t", an existing directory
InPath == <<116>>

\* "n", a path at which nothing exists, and "f", an existing regular file
NoPath   == <<110>>
FilePath == <<102>>

\* "m", the path of the archive file, and "u", a path at which no file can
\* be opened, for reading or for writing
ArchivePath == <<109>>
BadPath     == <<117>>

\* "o", the output root given to extract
OutPath == <<111>>

\* std::ofstream(path).is_open(): the file can be created or truncated
CanWrite(p) == p = ArchivePath

\* std::filesystem::exists and is_directory on the input paths
Exists(p)      == p \in {InPath, FilePath}
IsDirectory(p) == p = InPath

\* entry.path() of an entry whose path relative to the input root is rel
FullPath(rel) == InPath \o <<47>> \o rel

\* toRelativePath that returns the path as it was given
toRelativePath_fullPath(basePath, fullPath) == fullPath

\* std::filesystem::relative(full, base) for a path below base
toRelativePath(basePath, fullPath) ==
    SubSeq(fullPath, Len(basePath) + 2, Len(fullPath))

DirEntry(rel) ==
    [dir |-> TRUE, path |-> FullPath(rel), data |-> <<>>, readable |-> TRUE]

FileEntry(rel, data, readable) ==
    [dir |-> FALSE, path |-> FullPath(rel), data |-> data,
     readable |-> readable]

IsFile(e) == ~e.dir

\* the file of the tree at a path, as the filesystem resolves it
FsFile(t, path) ==
    CHOOSE e \in Range(t) : IsFile(e) /\ e.path = path

FsHasFile(t, path) ==
    \E e \in Range(t) : IsFile(e) /\ e.path = path /\ e.readable

-----------------------------------------------------------------------------
(* Fingerprints and the byte comparison.                                   *)

\* XXH64 over the whole content: a deterministic digest with collisions
XXH64(data) == (SumSeq(data) + Len(data)) % FpMod

\* Archive::calculateFingerprint: the digest rendered as 16 hex digits, a
\* one-to-one rendering, so the key is the digest
calculateFingerprint(t, path) == XXH64(FsFile(t, path).data)

\* the do-while loop of Archive::compareFiles over the two streams
RECURSIVE compareLoop(_, _, _, _)
compareLoop(data1, data2, file1, file2) ==
    LET r1     == Read(data1, file1, BufSize)
        r2     == Read(data2, file2, BufSize)
        differ == Len(r1.got) # Len(r2.got) \/ r1.got # r2.got
        f1     == IF differ THEN Close(r1.s) ELSE r1.s
        f2     == IF differ THEN Close(r2.s) ELSE r2.s
    IN  IF ~f1.fail /\ ~f2.fail
        THEN compareLoop(data1, data2, f1, f2)
        ELSE Close(f1).eof /\ Close(f2).eof

\* Archive::compareFiles
compareFiles(t, path1, path2) ==
    IF ~FsHasFile(t, path1) \/ ~FsHasFile(t, path2)
    THEN FALSE
    ELSE compareLoop(FsFile(t, path1).data, FsFile(t, path2).data,
                     NewStream, NewStream)

\* Archive::findDuplicate: TRUE when it returns the fingerprint
findDuplicate(t, index, path) ==
    LET fingerprint == calculateFingerprint(t, path)
    IN  /\ fingerprint \in DOMAIN index
        /\ compareFiles(t, path, index[fingerprint].name)

-----------------------------------------------------------------------------
(* The writer.                                                             *)

\* getTlvSize that leaves out sizeof(entry): the sum of the lengths only
RECURSIVE getTlvSize_lengthsOnly(_)
getTlvSize_lengthsOnly(lengths) ==
    IF lengths = <<>> THEN U32(0)
    ELSE Add32(Head(lengths), getTlvSize_lengthsOnly(Tail(lengths)))

\* Archive::getTlvSize over the lengths of the entries (uint32_t each):
\* the uint32_t totalSize
RECURSIVE getTlvSize(_)
getTlvSize(lengths) ==
    IF lengths = <<>> THEN U32(0)
    ELSE Add32(Add32(U32(HeaderSize), Head(lengths)),
               getTlvSize(Tail(lengths)))

\* Archive::addDirectory: the bytes appended to the archive
addDirectory(path, basePath) ==
    LET relativePath == toRelativePath(basePath, path)
    IN  TlvEntry(DIRECTORY_TAG, Len(relativePath)) \o relativePath

\* addDuplicateFile with the reference taken from the wrong field of the
\* candidate: its dataOffset instead of its entry offset
addDuplicateFile_dataOffset(index, path, fingerprint, basePath) ==
    LET fileEntry    == index[fingerprint]
        relativePath == toRelativePath(basePath, path)
        nameLength   == Len(relativePath)
    IN  TlvEntry(FILE_TAG,
                 ToInt(getTlvSize(<<U32(nameLength), U32(RefSize)>>)))
        \o TlvEntry(NAME_TAG, nameLength) \o relativePath
        \o TlvEntry(DATA_REF_TAG, RefSize) \o LE32(fileEntry.dataOffset)

\* Archive::addDuplicateFile: the bytes appended to the archive
addDuplicateFile(index, path, fingerprint, basePath) ==
    LET fileEntry    == index[fingerprint]
        relativePath == toRelativePath(basePath, path)
        nameLength   == Len(relativePath)
    IN  TlvEntry(FILE_TAG,
                 ToInt(getTlvSize(<<U32(nameLength), U32(RefSize)>>)))
        \o TlvEntry(NAME_TAG, nameLength) \o relativePath
        \o TlvEntry(DATA_REF_TAG, RefSize) \o LE32(fileEntry.offset)

\* the else branch of addFile with dataOffset taken before the DATA header
\* is written instead of after it
addOriginalFile_dataOffsetAtHeader(out, t, path, basePath) ==
    LET relativePath == toRelativePath(basePath, path)
        data         == FsFile(t, path).data
        head         == TlvEntry(FILE_TAG,
                                 ToInt(getTlvSize(<<U32(Len(relativePath)),
                                                    U32(Len(data))>>)))
                        \o TlvEntry(NAME_TAG, Len(relativePath))
                        \o relativePath
    IN  [bytes |-> head \o TlvEntry(DATA_TAG, Len(data)) \o data,
         file  |-> File(path, Len(data), Len(out), Len(out) + Len(head), 0)]

\* the else branch of Archive::addFile: the record of a file written as
\* original data, and the File stored in the index for it
addOriginalFile(out, t, path, basePath) ==
    LET fileOffset   == Len(out)
        relativePath == toRelativePath(basePath, path)
        nameLength   == Len(relativePath)
        data         == FsFile(t, path).data
        fileSize     == Len(data)
        head         == TlvEntry(FILE_TAG,
                                 ToInt(getTlvSize(<<U32(nameLength),
                                                    U32(fileSize)>>)))
                        \o TlvEntry(NAME_TAG, nameLength) \o relativePath
                        \o TlvEntry(DATA_TAG, fileSize)
        dataOffset   == Len(out) + Len(head)
    IN  [bytes |-> head \o data,
         file  |-> File(path, fileSize, fileOffset, dataOffset, 0)]

\* addFile without the early return for a file that cannot be opened: the
\* file is written as an original of the bytes the filesystem holds
addFile_noOpenCheck(out, index, t, path, basePath) ==
    LET w  == addOriginalFile(out, t, path, basePath)
        fp == calculateFingerprint(t, path)
    IN  [out   |-> out \o w.bytes,
         index |-> [f \in DOMAIN index \cup {fp} |->
                       IF f = fp THEN w.file ELSE index[f]]]

\* addFile that also stores a file written as a reference in the index,
\* under its fingerprint and with the offset of its own record
addFile_indexDuplicate(out, index, t, path, basePath) ==
    IF ~FsHasFile(t, path)
    THEN [out |-> out, index |-> index]
    ELSE LET fp == calculateFingerprint(t, path)
         IN  IF findDuplicate(t, index, path)
             THEN [out   |-> out \o addDuplicateFile(index, path, fp,
                                                     basePath),
                   index |-> [index EXCEPT
                                ![fp] = File(path, 0, Len(out), 0, 0)]]
             ELSE addFile_noOpenCheck(out, index, t, path, basePath)

\* addFile that keeps the first occupant of a slot: a file written as
\* original data under a fingerprint already present is not stored
addFile_keepFirst(out, index, t, path, basePath) ==
    LET r  == addFile_noOpenCheck(out, index, t, path, basePath)
        fp == calculateFingerprint(t, path)
    IN  IF ~FsHasFile(t, path)
        THEN [out |-> out, index |-> index]
        ELSE IF findDuplicate(t, index, path)
        THEN [out   |-> out \o addDuplicateFile(index, path, fp, basePath),
              index |-> index]
        ELSE [out   |-> r.out,
              index |-> IF fp \in DOMAIN index THEN index ELSE r.index]

\* Archive::addFile: the archive and the index after it
addFile(out, index, t, path, basePath) ==
    IF ~FsHasFile(t, path)
    THEN [out |-> out, index |-> index]
    ELSE IF findDuplicate(t, index, path)
    THEN [out   |-> out \o addDuplicateFile(index, path,
                              calculateFingerprint(t, path), basePath),
          index |-> index]
    ELSE LET w  == addOriginalFile(out, t, path, basePath)
             fp == calculateFingerprint(t, path)
         IN  [out   |-> out \o w.bytes,
              index |-> [f \in DOMAIN index \cup {fp} |->
                            IF f = fp THEN w.file ELSE index[f]]]

-----------------------------------------------------------------------------
(* The reader.  A read that comes up short leaves the rest of its buffer   *)
(* uninitialised (new char[length], uint32_t dataOffset): the bytes the    *)
(* code then uses from it are indeterminate, any of Indeterminate(n).      *)

\* representatives of the values an uninitialised byte can hold
GarbageBytes == {33, 63}

Indeterminate(n) == [1..n -> GarbageBytes]

\* readDirectory that returns an empty name without reading the payload
readDirectory_unread(data, s, length) == { [s |-> s, name |-> <<>>] }

\* Archive::readDirectory: every (stream, name) it can return
readDirectory(data, s, length) ==
    LET r == Read(data, s, length)
    IN  { [s |-> r.s, name |-> r.got \o g] :
            g \in Indeterminate(length - Len(r.got)) }

\* the while loop of Archive::readFile: every (stream, file) it can end
\* with.  The results of the reads are bound as values (h, r) before the
\* loop goes on with them.
RECURSIVE readFileLoop(_, _, _, _, _)
readFileLoop(data, s, length, bytesRead, file) ==
    IF ~Less32(bytesRead, U32(length)) THEN { [s |-> s, file |-> file] }
    ELSE UNION {
      IF h.s.fail THEN { [s |-> h.s, file |-> file] }
      ELSE
        LET len == FromLE32(SubSeq(h.got, 1, 4))
            tag == FromLE32(SubSeq(h.got, 5, 8))
            nxt == Add32(Add32(bytesRead, U32(HeaderSize)),
                         U32Of(SubSeq(h.got, 1, 4)))
        IN  IF tag = NAME_TAG
            THEN UNION { UNION { readFileLoop(data, r.s, length, nxt,
                                     [file EXCEPT !.name = r.got \o g]) :
                                   g \in Indeterminate(len - Len(r.got)) } :
                           r \in { Read(data, h.s, len) } }
            ELSE IF tag = DATA_TAG
            THEN readFileLoop(data, SeekCur(h.s, len), length, nxt,
                     [file EXCEPT !.dataOffset = h.s.pos, !.size = len])
            ELSE IF tag = DATA_REF_TAG
            THEN UNION { UNION { readFileLoop(data, r.s, length, nxt,
                                     [file EXCEPT !.dataOffsetRef =
                                                      FromLE32(r.got \o g)]) :
                                   g \in Indeterminate(RefSize
                                                       - Len(r.got)) } :
                           r \in { Read(data, h.s, RefSize) } }
            ELSE readFileLoop(data, h.s, length, nxt, file)
      : h \in { Read(data, s, HeaderSize) } }

\* Archive::readFile, called with the stream just past the FILE header
readFile(data, s, length) ==
    readFileLoop(data, s, length, U32(0),
                 [NoFile EXCEPT !.offset = s.pos - HeaderSize])

-----------------------------------------------------------------------------
(* The output root.  Paths are relative to outPath; <<>> is outPath.       *)

\* positions of the '/' separators of a path
Slashes(p) == { i \in 1..Len(p) : p[i] = 47 }

\* std::filesystem::path::parent_path of outPath + "/" + p
ParentPath(p) ==
    IF Slashes(p) = {} THEN <<>>
    ELSE SubSeq(p, 1, (CHOOSE i \in Slashes(p) :
                           \A j \in Slashes(p) : j <= i) - 1)

\* the directories std::filesystem::create_directories(outPath + "/" + p)
\* makes sure exist: p and every ancestor of it
CreateDirectories(p) ==
    {<<>>, p} \cup { SubSeq(p, 1, i - 1) : i \in Slashes(p) }

\* std::ofstream(fullPath) opens: the path is no directory and is writable
CanOpenOutput(dirs, p) == p # <<>> /\ p \notin dirs /\ p \notin denied

\* the copy loop of Archive::extractFiles: the stream after it, the bytes
\* written to the output file and the bytes still missing
RECURSIVE copyLoop(_, _, _, _)
copyLoop(data, s, remaining, written) ==
    IF remaining = 0 THEN [s |-> s, written |-> written, remaining |-> 0]
    ELSE LET r == Read(data, s, Min(BufSize, remaining))
         IN  IF Len(r.got) = 0
             THEN [s |-> r.s, written |-> written, remaining |-> remaining]
             ELSE copyLoop(data, r.s, remaining - Len(r.got),
                           written \o r.got)

\* the File that extractFiles copies for a record of the table: a record
\* with dataOffsetRef # 0 takes dataOffset and size from its target
resolveFile(table, file) ==
    IF file.dataOffsetRef # 0 /\ file.dataOffsetRef \in DOMAIN table
    THEN [file EXCEPT !.dataOffset = table[file.dataOffsetRef].dataOffset,
                      !.size = table[file.dataOffsetRef].size]
    ELSE file

\* the record of the table that is not found: dataOffsetRef names no key
isDangling(table, file) ==
    file.dataOffsetRef # 0 /\ file.dataOffsetRef \notin DOMAIN table

-----------------------------------------------------------------------------
(* The inputs: the trees create is run on.                                 *)

\* relative paths of the entries a tree can hold: d, a, b, d/c
DirNames  == { <<100>> }
FileNames == { <<97>>, <<98>>, <<100, 47, 99>> }

\* file contents: empty, shorter than a chunk, a whole chunk, and pairs
\* that XXH64 does not tell apart (of different and of equal length)
Contents == { <<>>, <<2>>, <<1, 2>>, <<2, 1>> }

Entries ==
    { DirEntry(n) : n \in DirNames }
    \cup { FileEntry(n, c, TRUE) : n \in FileNames, c \in Contents }
    \cup { FileEntry(<<98>>, <<3>>, FALSE) }

RelPath(e) == toRelativePath(InPath, e.path)

\* a walk recursive_directory_iterator can produce: no path twice, and an
\* entry below a directory comes after that directory
IsWalk(t) ==
    /\ \A i, j \in 1..Len(t) : i < j => t[i].path # t[j].path
    /\ \A i \in 1..Len(t) :
          ParentPath(RelPath(t[i])) # <<>> =>
              \E j \in 1..(i - 1) :
                  t[j] = DirEntry(ParentPath(RelPath(t[i])))

\* the walks of at most n entries, each a walk of n - 1 entries or such a
\* walk followed by one more entry
RECURSIVE Walks(_)
Walks(n) ==
    IF n = 0 THEN { <<>> }
    ELSE LET shorter == Walks(n - 1)
         IN  shorter
             \cup { t \in { Append(w, e) : w \in shorter, e \in Entries } :
                       IsWalk(t) }

Trees == Walks(MaxEntries)

EmptyMap == [k \in {} |-> NoFile]

\* the writer on large inputs before create writes anything: the stream
\* position, the records written and the index
WideStart == [pos |-> Wide(0, 0), recs |-> <<>>, index |-> EmptyMap]

NoEntry == [tag |-> 0, length |-> 0, at |-> 0]

Init ==
    /\ tree \in Trees
    /\ m_files = EmptyMap
    /\ archive = <<>>
    /\ present = FALSE
    /\ pc = "idle"
    /\ walk = 0
    /\ stream = NewStream
    /\ entry = NoEntry
    /\ files = EmptyMap
    /\ done = {}
    /\ outDirs = {}
    /\ outFiles = EmptyMap
    /\ denied = {}
    /\ errors = <<>>
    /\ listed = <<>>
    /\ ret = TRUE
    /\ creates = 0
    /\ extracts = 0
    /\ lists = 0
    /\ argv = <<>>
    /\ exitCode = <<>>
    /\ wide = WideStart

-----------------------------------------------------------------------------
(* Archive::create: the input path exists, the archive file is opened      *)
(* (and truncated), every entry of the walk is added, the file is closed.  *)

\* the state of main
mainVars == << argv, exitCode >>

readerVars == << stream, entry, files, done, outDirs, outFiles, denied,
                 errors, listed, extracts, lists >>

\* create that opens (and truncates) the archive file before it looks at
\* the input path
CreateCall_openFirst(outPath, inPath) ==
    /\ creates' = creates + 1
    /\ IF ~CanWrite(outPath)
       THEN /\ ret' = FALSE
            /\ pc' = "idle"
            /\ UNCHANGED << archive, present, walk >>
       ELSE /\ archive' = <<>>
            /\ present' = TRUE
            /\ IF ~Exists(inPath)
               THEN ret' = FALSE /\ pc' = "idle" /\ UNCHANGED walk
               ELSE IF IsDirectory(inPath)
               THEN walk' = 1 /\ pc' = "create" /\ UNCHANGED ret
               ELSE pc' = "aborted" /\ UNCHANGED << walk, ret >>
    /\ UNCHANGED << tree, m_files, readerVars, mainVars,
                    wide >>

\* Archive::create up to its loop: false when the input path does not
\* exist or the archive file cannot be opened for writing; else the file
\* is opened, which truncates it, and the walk begins.  The constructor of
\* recursive_directory_iterator throws when the path is no directory, and
\* nothing catches it.
CreateCall(outPath, inPath) ==
    /\ creates' = creates + 1
    /\ IF ~Exists(inPath) \/ ~CanWrite(outPath)
       THEN /\ ret' = FALSE
            /\ pc' = "idle"
            /\ UNCHANGED << archive, present, walk >>
       ELSE /\ archive' = <<>>
            /\ present' = TRUE
            /\ UNCHANGED ret
            /\ IF IsDirectory(inPath)
               THEN walk' = 1 /\ pc' = "create"
               ELSE pc' = "aborted" /\ UNCHANGED walk
    /\ UNCHANGED << tree, m_files, readerVars, mainVars,
                    wide >>

\* a create call on the Archive object, on the input tree
CreateBegin ==
    /\ pc = "idle"
    /\ creates < MaxCreates
    /\ CreateCall(ArchivePath, InPath)

CreateDirectory ==
    /\ pc = "create"
    /\ walk <= Len(tree)
    /\ tree[walk].dir
    /\ archive' = archive \o addDirectory(tree[walk].path, InPath)
    /\ walk' = walk + 1
    /\ UNCHANGED << tree, m_files, present, pc, ret, creates, readerVars,
                    mainVars,
                    wide >>

CreateFile ==
    /\ pc = "create"
    /\ walk <= Len(tree)
    /\ ~tree[walk].dir
    /\ LET r == addFile(archive, m_files, tree, tree[walk].path, InPath)
       IN  /\ archive' = r.out
           /\ m_files' = r.index
    /\ walk' = walk + 1
    /\ UNCHANGED << tree, present, pc, ret, creates, readerVars, mainVars,
                    wide >>

CreateEnd ==
    /\ pc = "create"
    /\ walk > Len(tree)
    /\ pc' = "idle"
    /\ ret' = TRUE
    /\ UNCHANGED << tree, m_files, archive, present, walk, creates,
                    readerVars, mainVars,
                    wide >>

-----------------------------------------------------------------------------
(* Archive::extract.                                                       *)

writerVars == << tree, m_files, archive, present, walk, creates >>

\* std::map<uint32_t, File>::operator[] followed by the assignment
Put(table, key, file) ==
    [k \in DOMAIN table \cup {key} |-> IF k = key THEN file ELSE table[k]]

\* create_directories throws when a component of the path is a regular
\* file; nothing catches it
DirBlocked(p) == \E q \in CreateDirectories(p) : q \in DOMAIN outFiles

\* std::ifstream(path).is_open(): the archive file exists at the path
CanRead(p) == p = ArchivePath /\ present

\* extract that creates the output root before it looks whether the
\* archive file is open
ExtractCall_createFirst(archivePath, outPath) ==
    /\ extracts' = extracts + 1
    /\ outDirs' = outDirs \cup {<<>>}
    /\ IF ~CanRead(archivePath)
       THEN /\ ret' = FALSE
            /\ pc' = "idle"
            /\ UNCHANGED << stream, entry, files, done, errors >>
       ELSE /\ pc' = "extract"
            /\ stream' = NewStream
            /\ entry' = NoEntry
            /\ files' = EmptyMap
            /\ done' = {}
            /\ errors' = <<>>
            /\ UNCHANGED ret
    /\ UNCHANGED << mainVars, writerVars, outFiles, denied, listed, lists,
                    wide >>

\* Archive::extract up to its loop: false when the archive cannot be
\* opened; else the output root is created.  Paths of the output are
\* kept relative to outPath.
ExtractCall(archivePath, outPath) ==
    /\ extracts' = extracts + 1
    /\ IF ~CanRead(archivePath)
       THEN /\ ret' = FALSE
            /\ pc' = "idle"
            /\ UNCHANGED << stream, entry, files, done, outDirs, errors >>
       ELSE /\ pc' = "extract"
            /\ stream' = NewStream
            /\ entry' = NoEntry
            /\ files' = EmptyMap
            /\ done' = {}
            /\ outDirs' = outDirs \cup {<<>>}
            /\ errors' = <<>>
            /\ UNCHANGED ret
    /\ UNCHANGED << mainVars, writerVars, outFiles, denied, listed, lists,
                    wide >>

\* an extract call on the Archive object, into the output root
ExtractBegin ==
    /\ pc = "idle"
    /\ extracts < MaxExtracts
    /\ ExtractCall(ArchivePath, OutPath)

\* one iteration of the while loop of extract: a header was read
ExtractRecord ==
    /\ pc = "extract"
    /\ LET h == Read(archive, stream, HeaderSize)
       IN  /\ ~h.s.fail
           /\ LET len == FromLE32(SubSeq(h.got, 1, 4))
                  tag == FromLE32(SubSeq(h.got, 5, 8))
              IN  /\ entry' = [tag |-> tag, length |-> len, at |-> stream.pos]
                  /\ IF tag = DIRECTORY_TAG
                     THEN \E d \in readDirectory(archive, h.s, len) :
                            /\ stream' = d.s
                            /\ IF DirBlocked(d.name)
                               THEN pc' = "aborted" /\ UNCHANGED outDirs
                               ELSE /\ outDirs' = outDirs
                                           \cup CreateDirectories(d.name)
                                    /\ UNCHANGED pc
                            /\ UNCHANGED files
                     ELSE IF tag = FILE_TAG
                     THEN \E f \in readFile(archive, h.s, len) :
                            /\ stream' = f.s
                            /\ files' = Put(files, f.file.offset, f.file)
                            /\ UNCHANGED << outDirs, pc >>
                     ELSE /\ stream' = SeekCur(h.s, len)
                          /\ UNCHANGED << files, outDirs, pc >>
    /\ UNCHANGED << mainVars, writerVars, done, outFiles, denied, errors,
                    listed, ret,
                    extracts, lists,
                    wide >>

\* the header read fails: the loop ends and extractFiles clears the flags
ExtractEndOfRecords ==
    /\ pc = "extract"
    /\ LET h == Read(archive, stream, HeaderSize)
       IN  /\ h.s.fail
           /\ stream' = Clear(h.s)
    /\ done' = {}
    /\ pc' = "extractFiles"
    /\ UNCHANGED << mainVars, writerVars, entry, files, outDirs, outFiles,
                    denied,
                    errors, listed, ret, extracts, lists,
                    wide >>

Report(kind, path) == [kind |-> kind, path |-> path]

\* one iteration of the for loop of extractFiles, in the order of the map
ExtractFile ==
    /\ pc = "extractFiles"
    /\ DOMAIN files \ done # {}
    /\ LET offset == CHOOSE k \in DOMAIN files \ done :
                         \A j \in DOMAIN files \ done : k <= j
           cfile  == files[offset]
           parent == ParentPath(cfile.name)
           dirs   == outDirs \cup CreateDirectories(parent)
           file   == resolveFile(files, cfile)
           copy   == copyLoop(archive, SeekBeg(stream, file.dataOffset),
                              file.size, <<>>)
       IN  /\ done' = done \cup {offset}
           /\ IF DirBlocked(parent)
              THEN /\ pc' = "aborted"
                   /\ UNCHANGED << outDirs, outFiles, errors, stream >>
              ELSE IF isDangling(files, cfile)
              THEN /\ errors' = Append(errors,
                                       Report("NoOriginal", cfile.name))
                   /\ outDirs' = dirs
                   /\ UNCHANGED << pc, outFiles, stream >>
              ELSE IF ~CanOpenOutput(dirs, cfile.name)
              THEN /\ errors' = Append(errors,
                                       Report("OpenFailed", cfile.name))
                   /\ outDirs' = dirs
                   /\ UNCHANGED << pc, outFiles, stream >>
              ELSE /\ outDirs' = dirs
                   /\ outFiles' = Put(outFiles, cfile.name, copy.written)
                   /\ stream' = copy.s
                   /\ errors' = IF copy.remaining # 0
                                THEN Append(errors,
                                         Report("UnexpectedEnd", cfile.name))
                                ELSE errors
                   /\ UNCHANGED pc
    /\ UNCHANGED << mainVars, writerVars, entry, files, denied, listed, ret,
                    extracts, lists,
                    wide >>

ExtractEnd ==
    /\ pc = "extractFiles"
    /\ DOMAIN files = done
    /\ pc' = "idle"
    /\ ret' = TRUE
    /\ UNCHANGED << mainVars, writerVars, stream, entry, files, done, outDirs,
                    outFiles, denied, errors, listed, extracts, lists,
                    wide >>

-----------------------------------------------------------------------------
(* Archive::list.                                                          *)

\* list that empties the fingerprint index of the object when it begins
ListCall_clearIndex(archivePath) ==
    /\ lists' = lists + 1
    /\ m_files' = EmptyMap
    /\ IF ~CanRead(archivePath)
       THEN /\ ret' = FALSE
            /\ pc' = "idle"
            /\ UNCHANGED << stream, entry, listed >>
       ELSE /\ pc' = "list"
            /\ stream' = NewStream
            /\ entry' = NoEntry
            /\ listed' = <<>>
            /\ UNCHANGED ret
    /\ UNCHANGED << mainVars, tree, archive, present, walk, creates, files,
                    done, outDirs, outFiles, denied, errors, extracts,
                    wide >>

\* Archive::list up to its loop: false when the archive cannot be opened
ListCall(archivePath) ==
    /\ lists' = lists + 1
    /\ IF ~CanRead(archivePath)
       THEN /\ ret' = FALSE
            /\ pc' = "idle"
            /\ UNCHANGED << stream, entry, listed >>
       ELSE /\ pc' = "list"
            /\ stream' = NewStream
            /\ entry' = NoEntry
            /\ listed' = <<>>
            /\ UNCHANGED ret
    /\ UNCHANGED << mainVars, writerVars, files, done, outDirs, outFiles,
                    denied, errors, extracts,
                    wide >>

\* a list call on the Archive object
ListBegin ==
    /\ pc = "idle"
    /\ lists < MaxLists
    /\ ListCall(ArchivePath)

\* one iteration of the while loop of list: a header was read
ListRecord ==
    /\ pc = "list"
    /\ LET h == Read(archive, stream, HeaderSize)
       IN  /\ ~h.s.fail
           /\ LET len == FromLE32(SubSeq(h.got, 1, 4))
                  tag == FromLE32(SubSeq(h.got, 5, 8))
              IN  /\ entry' = [tag |-> tag, length |-> len, at |-> stream.pos]
                  /\ IF tag = DIRECTORY_TAG
                     THEN \E d \in readDirectory(archive, h.s, len) :
                            /\ stream' = d.s
                            /\ listed' = Append(listed,
                                             Report("Directory", d.name))
                     ELSE IF tag = FILE_TAG
                     THEN \E f \in readFile(archive, h.s, len) :
                            /\ stream' = f.s
                            /\ listed' = Append(listed,
                                             Report("File", f.file.name))
                     ELSE /\ stream' = SeekCur(h.s, len)
                          /\ UNCHANGED listed
    /\ UNCHANGED << mainVars, writerVars, pc, files, done, outDirs,
                    outFiles, denied,
                    errors, ret, extracts, lists,
                    wide >>

ListEnd ==
    /\ pc = "list"
    /\ Read(archive, stream, HeaderSize).s.fail
    /\ pc' = "idle"
    /\ ret' = TRUE
    /\ UNCHANGED << mainVars, writerVars, stream, entry, files, done, outDirs,
                    outFiles, denied, errors, listed, extracts, lists,
                    wide >>

-----------------------------------------------------------------------------
(* The Archive object used on the trees: create, extract and list calls,   *)
(* one at a time.                                                          *)

Next ==
    \/ CreateBegin
    \/ CreateDirectory
    \/ CreateFile
    \/ CreateEnd
    \/ ExtractBegin
    \/ ExtractRecord
    \/ ExtractEndOfRecords
    \/ ExtractFile
    \/ ExtractEnd
    \/ ListBegin
    \/ ListRecord
    \/ ListEnd

Spec == Init /\ [][Next]_vars

-----------------------------------------------------------------------------
(* The reader used on containers that no create wrote: hand-made           *)
(* containers and containers cut short.                                    *)

Rec(tag, payload) == TlvEntry(tag, Len(payload)) \o payload
NameSub(name)     == Rec(NAME_TAG, name)
DataSub(data)     == Rec(DATA_TAG, data)
RefSub(offset)    == Rec(DATA_REF_TAG, LE32(offset))
FileRec(subs)     == Rec(FILE_TAG, subs)
DirRec(name)      == Rec(DIRECTORY_TAG, name)

\* a tag the reader does not know: "UNKN"
UNKNOWN_TAG == TagOf(<<85, 78, 75, 78>>)

\* FILE a with three bytes of data; 28 bytes long
FileA == FileRec(NameSub(<<97>>) \o DataSub(<<1, 2, 3>>))

\* DIR d, FILE a at 9, FILE b referring to it at 37, FILE d/c at 66,
\* DIR ee at 94
Sound ==
    DirRec(<<100>>) \o FileA
    \o FileRec(NameSub(<<98>>) \o RefSub(9))
    \o FileRec(NameSub(<<100, 47, 99>>) \o DataSub(<<3>>))
    \o DirRec(<<101, 101>>)

\* Sound cut at every byte position
Truncated == { SubSeq(Sound, 1, k) : k \in 0..Len(Sound) }

\* values that are the entry offset of no FILE record of DanglingRef(v)
DanglingValues == { 0, 1, 10, 36, 100 }

\* DIR d, FILE a at 9, FILE x at 37 with a DATA_REF of v, FILE b at 66
DanglingRef(v) ==
    DirRec(<<100>>) \o FileA
    \o FileRec(NameSub(<<120>>) \o RefSub(v))
    \o FileRec(NameSub(<<98>>) \o DataSub(<<2>>))

\* FILE a at 0, FILE x at 28 with a DATA_REF naming no record
DanglingFirst == FileA \o FileRec(NameSub(<<120>>) \o RefSub(5))

\* DIR d, FILE a at 9, FILE b at 37 referring to a, FILE x at 66
\* referring to b
Chained ==
    DirRec(<<100>>) \o FileA
    \o FileRec(NameSub(<<98>>) \o RefSub(9))
    \o FileRec(NameSub(<<120>>) \o RefSub(37))

\* FILE records whose payload holds more than NAME and DATA or DATA_REF,
\* each followed by DIR d
OddSubRecords ==
    { FileRec(NameSub(<<120>>) \o Rec(UNKNOWN_TAG, <<1, 1, 1, 1, 1, 1, 1, 1>>))
          \o DirRec(<<100>>),
      FileRec(NameSub(<<120>>) \o Rec(UNKNOWN_TAG, <<7>>) \o DataSub(<<1, 2>>))
          \o DirRec(<<100>>),
      FileRec(NameSub(<<120>>) \o DataSub(<<1, 2>>) \o Rec(UNKNOWN_TAG, <<>>))
          \o DirRec(<<100>>),
      FileRec(NameSub(<<120>>) \o DataSub(<<1>>) \o NameSub(<<121>>))
          \o DirRec(<<100>>),
      FileRec(NameSub(<<120>>) \o TlvEntry(DATA_REF_TAG, 8) \o LE32(33)
                  \o <<0, 0, 0, 0>>)
          \o FileA }

\* a top-level record with a tag the reader does not know, then FILE a, DIR d
UnknownTop == Rec(UNKNOWN_TAG, <<5, 5>>) \o FileA \o DirRec(<<100>>)

\* FILE x at 0 referring to FILE b, FILE a at 29, and FILE b at 57 with its
\* last two data bytes cut off
ShortRead ==
    LET whole == FileRec(NameSub(<<120>>) \o RefSub(57)) \o FileA
                 \o FileRec(NameSub(<<98>>) \o DataSub(<<4, 5, 6>>))
    IN  SubSeq(whole, 1, Len(whole) - 2)

Crafted ==
    Truncated
    \cup { DanglingRef(v) : v \in DanglingValues }
    \cup { DanglingFirst, Chained, UnknownTop, ShortRead }
    \cup OddSubRecords

InitCrafted ==
    /\ tree = <<>>
    /\ m_files = EmptyMap
    /\ archive \in Crafted
    /\ present = TRUE
    /\ pc = "idle"
    /\ walk = 0
    /\ stream = NewStream
    /\ entry = NoEntry
    /\ files = EmptyMap
    /\ done = {}
    /\ outDirs = {}
    /\ outFiles = EmptyMap
    /\ denied \in { {}, { <<97>> } }
    /\ errors = <<>>
    /\ listed = <<>>
    /\ ret = TRUE
    /\ creates = 0
    /\ extracts = 0
    /\ lists = 0
    /\ argv = <<>>
    /\ exitCode = <<>>
    /\ wide = WideStart

NextCrafted ==
    \/ ExtractBegin
    \/ ExtractRecord
    \/ ExtractEndOfRecords
    \/ ExtractFile
    \/ ExtractEnd
    \/ ListBegin
    \/ ListRecord
    \/ ListEnd

SpecCrafted == InitCrafted /\ [][NextCrafted]_vars

-----------------------------------------------------------------------------
(* main: one run of the program.  It looks at its arguments, constructs an *)
(* Archive, calls one operation on it and returns 0 or 1.                  *)

\* the trees of the runs of main have at most this many entries
MaxMainEntries == 2

\* argv[1], argv[2], ... of the runs: every command with the right number
\* of arguments, with too few and with too many, no command, and a word
\* that is no command
Argvs ==
    { <<>>, <<"help">>, <<"help", ArchivePath>>,
      <<"bogus">>, <<"bogus", ArchivePath, InPath>>,
      <<"create">>, <<"create", ArchivePath>>,
      <<"create", ArchivePath, InPath, InPath>>,
      <<"extract">>, <<"extract", ArchivePath>>,
      <<"extract", ArchivePath, OutPath, OutPath>>,
      <<"list">>, <<"list", ArchivePath, OutPath>> }
    \cup { <<"create", a, i>> : a \in {ArchivePath, BadPath},
                                i \in {InPath, NoPath, FilePath} }
    \cup { <<"extract", a, OutPath>> : a \in {ArchivePath, BadPath} }
    \cup { <<"list", a>> : a \in {ArchivePath, BadPath} }

InitMain ==
    /\ tree \in Walks(MaxMainEntries)
    /\ argv \in Argvs
    /\ exitCode = <<>>
    /\ wide = WideStart
    /\ m_files = EmptyMap
    /\ present \in BOOLEAN
    /\ archive = IF present THEN Sound ELSE <<>>
    /\ pc = "main"
    /\ walk = 0
    /\ stream = NewStream
    /\ entry = NoEntry
    /\ files = EmptyMap
    /\ done = {}
    /\ outDirs = {}
    /\ outFiles = EmptyMap
    /\ denied = {}
    /\ errors = <<>>
    /\ listed = <<>>
    /\ ret = TRUE
    /\ creates = 0
    /\ extracts = 0
    /\ lists = 0

\* the if / else-if chain of main up to the call of the operation: argc
\* is Len(argv) + 1
MainDispatch ==
    /\ pc = "main"
    /\ LET return(code) == pc' = "exited" /\ exitCode' = <<code>>
           call         == pc' = "call" /\ UNCHANGED exitCode
       IN  IF Len(argv) + 1 < 2 THEN return(1)
           ELSE IF argv[1] = "help" THEN return(0)
           ELSE IF argv[1] = "create"
           THEN IF Len(argv) + 1 # 4 THEN return(1) ELSE call
           ELSE IF argv[1] = "extract"
           THEN IF Len(argv) + 1 # 4 THEN return(1) ELSE call
           ELSE IF argv[1] = "list"
           THEN IF Len(argv) + 1 # 3 THEN return(1) ELSE call
           ELSE return(1)
    /\ UNCHANGED << argv, writerVars, stream, entry, files, done, outDirs,
                    outFiles, denied, errors, listed, ret, extracts, lists,
                    wide >>

\* Archive archive; archive.create(archivePath, inputPath)
MainCreate ==
    /\ pc = "call"
    /\ argv[1] = "create"
    /\ CreateCall(argv[2], argv[3])

\* Archive archive; archive.extract(archivePath, outputPath)
MainExtract ==
    /\ pc = "call"
    /\ argv[1] = "extract"
    /\ ExtractCall(argv[2], argv[3])

\* Archive archive; archive.list(archivePath)
MainList ==
    /\ pc = "call"
    /\ argv[1] = "list"
    /\ ListCall(argv[2])

\* the operation has returned: 1 when it returned false, else 0
MainReturn ==
    /\ pc = "idle"
    /\ exitCode = <<>>
    /\ pc' = "exited"
    /\ exitCode' = << IF ret THEN 0 ELSE 1 >>
    /\ UNCHANGED << argv, writerVars, stream, entry, files, done, outDirs,
                    outFiles, denied, errors, listed, ret, extracts, lists,
                    wide >>

NextMain ==
    \/ MainDispatch
    \/ MainCreate
    \/ CreateDirectory
    \/ CreateFile
    \/ CreateEnd
    \/ MainExtract
    \/ ExtractRecord
    \/ ExtractEndOfRecords
    \/ ExtractFile
    \/ ExtractEnd
    \/ MainList
    \/ ListRecord
    \/ ListEnd
    \/ MainReturn

SpecMain == InitMain /\ [][NextMain]_vars

-----------------------------------------------------------------------------
(* The container format, read by its grammar (Container := Record*,        *)
(* Record := Header Payload): what a container holds, independently of     *)
(* the reader above.  The properties below are stated against it.          *)

HeaderAt(b, p) ==
    [length |-> FromLE32(SubSeq(b, p + 1, p + 4)),
     tag    |-> FromLE32(SubSeq(b, p + 5, p + 8))]

\* the bytes from p to end are a sequence of whole records
RECURSIVE TlvOK(_, _, _)
TlvOK(b, p, end) ==
    \/ p = end
    \/ /\ p + HeaderSize <= end
       /\ p + HeaderSize + HeaderAt(b, p).length <= end
       /\ TlvOK(b, p + HeaderSize + HeaderAt(b, p).length, end)

\* the records from p to end: where each starts, its tag, length and payload
RECURSIVE TlvSeq(_, _, _)
TlvSeq(b, p, end) ==
    IF p >= end THEN <<>>
    ELSE LET h == HeaderAt(b, p)
         IN  << [at |-> p, tag |-> h.tag, length |-> h.length,
                 payload |-> SubSeq(b, p + HeaderSize + 1,
                                    p + HeaderSize + h.length)] >>
             \o TlvSeq(b, p + HeaderSize + h.length, end)

TopRecords(b) == TlvSeq(b, 0, Len(b))

SubRecords(b, r) ==
    TlvSeq(b, r.at + HeaderSize, r.at + HeaderSize + r.length)

\* whole records at the top level and inside every FILE record
WellFormed(b) ==
    /\ TlvOK(b, 0, Len(b))
    /\ \A r \in Range(TopRecords(b)) :
          r.tag = FILE_TAG =>
              TlvOK(b, r.at + HeaderSize, r.at + HeaderSize + r.length)

FileRecords(b) == { r \in Range(TopRecords(b)) : r.tag = FILE_TAG }
DirRecords(b)  == { r \in Range(TopRecords(b)) : r.tag = DIRECTORY_TAG }

SubsOf(b, r, tag) == { u \in Range(SubRecords(b, r)) : u.tag = tag }

\* the payload of the one sub-record of r with this tag
SubOf(b, r, tag) == (CHOOSE u \in SubsOf(b, r, tag) : TRUE).payload

\* a FILE record made of one NAME and one DATA sub-record
OwnsData(b, r) ==
    /\ Len(SubRecords(b, r)) = 2
    /\ Cardinality(SubsOf(b, r, NAME_TAG)) = 1
    /\ Cardinality(SubsOf(b, r, DATA_TAG)) = 1

\* a FILE record made of one NAME and one 4-byte DATA_REF sub-record
IsReference(b, r) ==
    /\ Len(SubRecords(b, r)) = 2
    /\ Cardinality(SubsOf(b, r, NAME_TAG)) = 1
    /\ Cardinality(SubsOf(b, r, DATA_REF_TAG)) = 1
    /\ Len(SubOf(b, r, DATA_REF_TAG)) = RefSize

NameOf(b, r) == SubOf(b, r, NAME_TAG)
DataOf(b, r) == SubOf(b, r, DATA_TAG)
RefOf(b, r)  == FromLE32(SubOf(b, r, DATA_REF_TAG))

\* a container of DIR records and of FILE records of the two plain shapes
Plain(b) ==
    /\ WellFormed(b)
    /\ \A r \in Range(TopRecords(b)) :
          \/ r.tag = DIRECTORY_TAG
          \/ r.tag = FILE_TAG /\ (OwnsData(b, r) \/ IsReference(b, r))

-----------------------------------------------------------------------------
(* The input tree as a set of files and directories.                       *)

TreeFiles(t) == { e \in Range(t) : IsFile(e) }
TreeDirs(t)  == { RelPath(e) : e \in { x \in Range(t) : x.dir } }

AllReadable(t) == \A e \in TreeFiles(t) : e.readable

NoDuplicateContent(t) ==
    \A e, f \in TreeFiles(t) : e # f => e.data # f.data

\* the bytes of the file of the tree with this relative path
TreeData(t, rel) == FsFile(t, FullPath(rel)).data

\* the first create of a fresh Archive has returned and no other has begun
FirstCreateDone == creates = 1 /\ pc # "create"

\* the first create of a fresh Archive is running or has returned
FirstCreate == creates = 1

\* the one extract has returned; it ran on the container of the first
\* create and the output root was empty before it
ExtractedFirstCreate ==
    /\ creates = 1
    /\ extracts = 1
    /\ pc = "idle"
    /\ <<>> \in outDirs

-----------------------------------------------------------------------------
(* Properties of create followed by extract (specification Spec).          *)

RelPaths(es) == { RelPath(e) : e \in es }

\* C1: round trip.  For a tree of readable files no two of which have the
\* same content, create on a fresh Archive followed by extract into an
\* empty output root yields the files of the tree with their bytes and the
\* directories of the tree, whatever the order of the walk.
C1_RoundTrip ==
    (ExtractedFirstCreate /\ AllReadable(tree) /\ NoDuplicateContent(tree))
    => /\ DOMAIN outFiles = RelPaths(TreeFiles(tree))
       /\ \A e \in TreeFiles(tree) :
             RelPath(e) \in DOMAIN outFiles
             => outFiles[RelPath(e)] = e.data
       /\ outDirs = {<<>>} \cup TreeDirs(tree)

\* The round trip of C1 for the trees in which, in addition, no two files
\* have the same fingerprint.
RoundTripWithoutCollision ==
    (/\ ExtractedFirstCreate /\ AllReadable(tree)
     /\ \A e, f \in TreeFiles(tree) :
           e # f => XXH64(e.data) # XXH64(f.data))
    => /\ DOMAIN outFiles = RelPaths(TreeFiles(tree))
       /\ \A e \in TreeFiles(tree) :
             RelPath(e) \in DOMAIN outFiles
             => outFiles[RelPath(e)] = e.data
       /\ outDirs = {<<>>} \cup TreeDirs(tree)

\* C2: deduplicated files extract intact.  When two files of the tree have
\* the same bytes, after create and extract both exist under the output
\* root and hold those bytes, whatever the order of the walk and so
\* whatever the entry offset of the record that holds the data.
C2_DuplicatesExtractIntact ==
    (ExtractedFirstCreate /\ AllReadable(tree))
    => \A e, f \in TreeFiles(tree) :
          (e # f /\ e.data = f.data)
          => /\ RelPath(f) \in DOMAIN outFiles
             /\ outFiles[RelPath(f)] = f.data

\* C3: no false deduplication.  During a create, a file written as a
\* DATA_REF has exactly the bytes of the record the reference names: a
\* file whose bytes differ from the candidate's is written with its own
\* DATA, also when their fingerprints are equal.
C3_NoFalseDedup ==
    FirstCreate
    => \A r \in FileRecords(archive) :
          IsReference(archive, r)
          => \E q \in FileRecords(archive) :
                /\ q.at = RefOf(archive, r)
                /\ OwnsData(archive, q)
                /\ DataOf(archive, q) = TreeData(tree, NameOf(archive, r))

\* the readable files of the tree that hold the bytes c
Holding(t, c) == { e \in TreeFiles(t) : e.readable /\ e.data = c }

\* no readable file with other bytes has the fingerprint of c
AloneInBucket(t, c) ==
    \A f \in TreeFiles(t) :
        (f.readable /\ f.data # c) => XXH64(f.data) # XXH64(c)

\* C4: deduplicated storage.  When k >= 2 files of the tree hold the same
\* bytes and no other file shares their fingerprint, the container of one
\* create on a fresh Archive holds exactly one DATA sub-record with those
\* bytes, in the record of one of the k files, and the other k-1 files
\* are records made of a NAME and a 4-byte DATA_REF whose value is the
\* entry offset of that record.
C4_DedupStorage ==
    FirstCreateDone
    => \A c \in Contents :
          (Cardinality(Holding(tree, c)) >= 2 /\ AloneInBucket(tree, c))
          => LET names  == RelPaths(Holding(tree, c))
                 mine   == { r \in FileRecords(archive) :
                               NameOf(archive, r) \in names }
                 owners == { r \in FileRecords(archive) :
                               OwnsData(archive, r)
                               /\ DataOf(archive, r) = c }
             IN  /\ Plain(archive)
                 /\ Cardinality(owners) = 1
                 /\ owners \subseteq mine
                 /\ Cardinality(mine) = Cardinality(names)
                 /\ \A r \in mine \ owners :
                       /\ IsReference(archive, r)
                       /\ \A o \in owners : RefOf(archive, r) = o.at

\* C4 witness: a first create has written three files with the same bytes,
\* the first of them at an entry offset other than 0
C4_Witness ==
    /\ FirstCreateDone
    /\ pc = "idle"
    /\ \E c \in Contents :
          /\ Cardinality(Holding(tree, c)) = 3
          /\ AloneInBucket(tree, c)
          /\ \E r \in FileRecords(archive) :
                IsReference(archive, r) /\ RefOf(archive, r) # 0

\* C8: the index is scoped to one create.  When a create call starts, the
\* index is empty, and every DATA_REF in the archive names a FILE record
\* of that same archive.
C8_IndexScopedToCreate ==
    /\ (pc = "create" /\ walk = 1) => m_files = EmptyMap
    /\ creates >= 1
       => \A r \in FileRecords(archive) :
             IsReference(archive, r)
             => \E q \in FileRecords(archive) : q.at = RefOf(archive, r)

-----------------------------------------------------------------------------
(* Properties of extract and list on hand-made and cut containers          *)
(* (specification SpecCrafted).                                            *)

\* the one extract has returned
ExtractDone == extracts = 1 /\ pc = "idle"

\* the one list has returned
ListDone == lists = 1 /\ pc = "idle"

Offsets(b) == { r.at : r \in FileRecords(b) }

RecordAt(b, o) == CHOOSE q \in FileRecords(b) : q.at = o

\* a reference whose value is the entry offset of no FILE record
Dangling(b, r) == IsReference(b, r) /\ RefOf(b, r) \notin Offsets(b)

\* a reference to a record that is itself a reference
ChainedRef(b, r) ==
    /\ IsReference(b, r)
    /\ RefOf(b, r) \in Offsets(b)
    /\ ~OwnsData(b, RecordAt(b, RefOf(b, r)))

\* a record that owns data, or refers to one that does
Resolves(b, r) ==
    \/ OwnsData(b, r)
    \/ /\ IsReference(b, r)
       /\ RefOf(b, r) \in Offsets(b)
       /\ OwnsData(b, RecordAt(b, RefOf(b, r)))

\* the bytes a record that resolves stands for
ContentOf(b, r) ==
    IF OwnsData(b, r) THEN DataOf(b, r)
    ELSE DataOf(b, RecordAt(b, RefOf(b, r)))

DistinctNames(b) ==
    \A r, q \in FileRecords(b) :
        r # q => NameOf(b, r) # NameOf(b, q)

ErrorsFor(name) == { i \in 1..Len(errors) : errors[i].path = name }

\* C5: dangling reference tolerance.  When one FILE record of a container
\* carries a DATA_REF whose value is the entry offset of no FILE record,
\* whatever that value, and every other record resolves, extract reports
\* exactly one failure, for that record, writes no output file for it and
\* extracts every other record with its content.
C5_DanglingTolerated ==
    (/\ ExtractDone /\ denied = {}
     /\ Plain(archive) /\ DistinctNames(archive)
     /\ Cardinality({ r \in FileRecords(archive) :
                        Dangling(archive, r) }) = 1
     /\ \A r \in FileRecords(archive) :
           Dangling(archive, r) \/ Resolves(archive, r))
    => \A r \in FileRecords(archive) :
          IF Dangling(archive, r)
          THEN /\ Len(errors) = 1
               /\ errors[1].path = NameOf(archive, r)
               /\ NameOf(archive, r) \notin DOMAIN outFiles
          ELSE /\ NameOf(archive, r) \in DOMAIN outFiles
               /\ outFiles[NameOf(archive, r)] = ContentOf(archive, r)

\* C6: chained references are rejected.  A FILE record whose DATA_REF names
\* a record that is itself a reference is reported and skipped: no output
\* file is written for it.
C6_ChainedRejected ==
    (ExtractDone /\ denied = {} /\ Plain(archive) /\ DistinctNames(archive))
    => \A r \in FileRecords(archive) :
          ChainedRef(archive, r)
          => /\ ErrorsFor(NameOf(archive, r)) # {}
             /\ NameOf(archive, r) \notin DOMAIN outFiles

\* the payloads of Sound a cut can fall into: of a DIR record, and of the
\* NAME and DATA sub-records of a FILE record, as [from, to) byte ranges
CutPayloads ==
    { [from |-> r.at + HeaderSize, to |-> r.at + HeaderSize + r.length] :
        r \in DirRecords(Sound) }
    \cup UNION { { [from |-> u.at + HeaderSize,
                    to   |-> u.at + HeaderSize + u.length] :
                     u \in SubsOf(Sound, r, NAME_TAG)
                           \cup SubsOf(Sound, r, DATA_TAG) } :
                 r \in FileRecords(Sound) }

\* the archive is Sound cut inside a payload: some bytes of the payload
\* are present and some are missing
CutInPayload ==
    /\ Len(archive) < Len(Sound)
    /\ archive = SubSeq(Sound, 1, Len(archive))
    /\ \E p \in CutPayloads : p.from < Len(archive) /\ Len(archive) < p.to

\* the records of Sound that are whole in the archive
WholeRecords ==
    SelectSeq(TopRecords(Sound),
              LAMBDA r : r.at + HeaderSize + r.length <= Len(archive))

WholeFiles == { r \in Range(WholeRecords) : r.tag = FILE_TAG }
WholeDirs  == { r \in Range(WholeRecords) : r.tag = DIRECTORY_TAG }

\* what list prints for a record of Sound
ListLine(r) ==
    IF r.tag = DIRECTORY_TAG THEN Report("Directory", r.payload)
    ELSE Report("File", NameOf(Sound, r))

\* C7: truncation tolerance.  For a container cut inside a DIR, NAME or
\* DATA payload, extract and list return normally, and what they write
\* and print is what the whole records before the cut hold: nothing is
\* written or printed for the record that is cut.
C7_TruncationTolerated ==
    /\ (ExtractDone /\ CutInPayload /\ denied = {})
       => /\ ret = TRUE
          /\ DOMAIN outFiles = { NameOf(Sound, r) : r \in WholeFiles }
          /\ \A r \in WholeFiles :
                NameOf(Sound, r) \in DOMAIN outFiles
                => outFiles[NameOf(Sound, r)] = ContentOf(Sound, r)
          /\ outDirs = {<<>>}
                       \cup UNION { CreateDirectories(r.payload) :
                                      r \in WholeDirs }
                       \cup UNION { CreateDirectories(
                                        ParentPath(NameOf(Sound, r))) :
                                      r \in WholeFiles }
    /\ (ListDone /\ CutInPayload)
       => /\ ret = TRUE
          /\ listed = [i \in 1..Len(WholeRecords) |->
                          ListLine(WholeRecords[i])]

\* C9: sub-record framing.  After the reader has decoded a FILE record
\* with header at o and declared length L, whatever its sub-records, it
\* is at o + 8 + L; so every top-level header it decodes is the header of
\* a record of the container, never bytes of a sub-record.
C9_ReaderResumesAfterRecord ==
    (pc \in {"extract", "list"} /\ WellFormed(archive) /\ entry # NoEntry)
    => /\ entry.at \in { r.at : r \in Range(TopRecords(archive)) }
       /\ entry.tag = FILE_TAG
          => stream.pos = entry.at + HeaderSize + entry.length

\* the record of the table whose data a record of the table takes
SourceOf(f) ==
    IF f.dataOffsetRef \in DOMAIN files THEN files[f.dataOffsetRef] ELSE f

\* extract cannot serve this record of the table: its output file cannot
\* be opened, its reference names no record, or the bytes it stands for
\* are not all in the archive
OwnFault(f) ==
    \/ f.name = <<>> \/ f.name \in denied \/ f.name \in outDirs
    \/ f.dataOffsetRef # 0 /\ f.dataOffsetRef \notin DOMAIN files
    \/ SourceOf(f).dataOffset + SourceOf(f).size > Len(archive)

\* C10: per-file failure isolation in extract.  When the output file of a
\* record cannot be opened or the read of its bytes comes up short, every
\* other record of the table, before or after it, is extracted with
\* exactly its contentSize bytes and no failure is reported for it.
C10_FailureIsolated ==
    (/\ ExtractDone
     /\ \A j, k \in DOMAIN files : j # k => files[j].name # files[k].name
     /\ \E k \in DOMAIN files : OwnFault(files[k]))
    => \A k \in DOMAIN files :
          ~OwnFault(files[k])
          => /\ files[k].name \in DOMAIN outFiles
             /\ outFiles[files[k].name] =
                   SubSeq(archive, SourceOf(files[k]).dataOffset + 1,
                          SourceOf(files[k]).dataOffset
                              + SourceOf(files[k]).size)
             /\ ErrorsFor(files[k].name) = {}

-----------------------------------------------------------------------------
(* Properties of the writer (specification Spec).                          *)

\* the entries of the walk that create has passed and that it writes: the
\* directories and the files that can be opened
Written(t, k) ==
    SelectSeq(SubSeq(t, 1, k), LAMBDA e : e.dir \/ e.readable)

\* the entries of the walk the running or last create has passed
Passed == Written(tree, walk - 1)

\* a create is running or has returned, and neither extract nor list is
\* running: they leave the container and the index as they find them
WriterAtRest == creates >= 1 /\ pc \in {"create", "idle"}

\* the top-level record r of the container is the record of entry e
RecordOf(b, r, e) ==
    IF e.dir
    THEN r.tag = DIRECTORY_TAG /\ r.payload = RelPath(e)
    ELSE /\ r.tag = FILE_TAG
         /\ Cardinality(SubsOf(b, r, NAME_TAG)) = 1
         /\ NameOf(b, r) = RelPath(e)

\* C11: per-file failure isolation in create.  A regular file that cannot
\* be opened adds no byte to the container and no entry to the index;
\* every other directory and file of the walk is written, in the order of
\* the walk, and create returns true.
C11_UnreadableSkipped ==
    WriterAtRest
    => LET top == TopRecords(archive)
           was == Passed
       IN  /\ WellFormed(archive)
           /\ Len(top) = Len(was)
           /\ \A i \in 1..Len(was) :
                 i <= Len(top) => RecordOf(archive, top[i], was[i])
           /\ \A fp \in DOMAIN m_files : FsHasFile(tree, m_files[fp].name)
           /\ pc = "idle" => (ret = TRUE /\ walk = Len(tree) + 1)

\* create has returned on a tree with a file that cannot be opened and
\* with a directory and a file after it in the walk
C11_Witness ==
    /\ creates >= 1 /\ pc = "idle" /\ ret = TRUE
    /\ \E i, j, k \in 1..Len(tree) :
          /\ i < j /\ i < k
          /\ IsFile(tree[i]) /\ ~tree[i].readable
          /\ tree[j].dir
          /\ IsFile(tree[k]) /\ tree[k].readable
    /\ Len(TopRecords(archive)) = Len(tree) - 1

\* C12: TLV length invariant on the writer side.  In every container
\* create writes, each header's length is the number of payload bytes
\* that follow it: the byte length of the relative path for DIR and NAME,
\* the number of content bytes for DATA, 4 for DATA_REF, and for FILE the
\* sum over its two sub-records of 8 plus the sub-record's length.
C12_WriterLengths ==
    WriterAtRest
    => LET top == TopRecords(archive)
           was == Passed
       IN  /\ TlvOK(archive, 0, Len(archive))
           /\ Len(top) = Len(was)
           /\ \A i \in 1..Len(was) :
                 LET r == top[i]
                     e == was[i]
                     u == SubRecords(archive, r)
                 IN  /\ Len(r.payload) = r.length
                     /\ e.dir => r.length = Len(RelPath(e))
                     /\ ~e.dir =>
                           /\ Len(u) = 2
                           /\ r.length = (HeaderSize + u[1].length)
                                         + (HeaderSize + u[2].length)
                           /\ u[1].tag = NAME_TAG
                           /\ u[1].length = Len(RelPath(e))
                           /\ Len(u[1].payload) = u[1].length
                           /\ u[2].tag \in {DATA_TAG, DATA_REF_TAG}
                           /\ Len(u[2].payload) = u[2].length
                           /\ u[2].tag = DATA_TAG
                              => u[2].payload = e.data
                           /\ u[2].tag = DATA_REF_TAG
                              => u[2].length = 4

\* create has written a directory, a file with its data and a file as a
\* reference
C12_Witness ==
    /\ creates = 1 /\ pc = "idle"
    /\ DirRecords(archive) # {}
    /\ \E r, q \in FileRecords(archive) :
          /\ OwnsData(archive, r) /\ DataOf(archive, r) # <<>>
          /\ IsReference(archive, q)

\* the ways the four characters of a tag can lie in four bytes
Reverse4(b) == << b[4], b[3], b[2], b[1] >>

TagBytes(tag) == { LE32(tag), Reverse4(LE32(tag)) }

\* C13: header layout.  Every record header create writes is 8 bytes: the
\* 4-byte tag first, then the 4-byte length.
C13_TagThenLength ==
    (creates >= 1 /\ pc = "idle" /\ Len(TopRecords(archive)) = Len(Passed))
    => \A r \in Range(TopRecords(archive)) :
          /\ SubSeq(archive, r.at + 1, r.at + 4) \in TagBytes(r.tag)
          /\ SubSeq(archive, r.at + 5, r.at + 8) = LE32(r.length)

\* C20: back-references point backward at owned data.  At every point of
\* one create on a fresh Archive, each DATA_REF written is the second of
\* the two sub-records of its FILE record and its payload is the entry
\* offset of a FILE record written earlier in the same container that
\* carries a DATA sub-record.
C20_RefsPointBackAtData ==
    creates = 1
    => \A r \in FileRecords(archive) :
          SubsOf(archive, r, DATA_REF_TAG) # {}
          => /\ IsReference(archive, r)
             /\ \E q \in FileRecords(archive) :
                   /\ q.at = RefOf(archive, r)
                   /\ q.at < r.at
                   /\ OwnsData(archive, q)

\* the first create is under way, with an entry of the walk still to
\* come, and has written a reference to a record that is not at the start
\* of the container
C20_Witness ==
    /\ creates = 1 /\ pc = "create" /\ walk <= Len(tree)
    /\ \E r \in FileRecords(archive) :
          /\ IsReference(archive, r)
          /\ RefOf(archive, r) > 0

-----------------------------------------------------------------------------
(* Properties of extract and list on the containers create writes          *)
(* (specification Spec).                                                   *)

\* C14: extraction copies the resolved byte range.  For every FILE record
\* that owns data, or whose reference names a record of the container
\* that owns data, extract creates outputRoot/name with its parent
\* directories, holding exactly the content bytes of the record that owns
\* the data.
C14_CopiesResolvedRange ==
    (ExtractedFirstCreate /\ Plain(archive) /\ DistinctNames(archive))
    => \A r \in FileRecords(archive) :
          Resolves(archive, r)
          => /\ NameOf(archive, r) \in DOMAIN outFiles
             /\ outFiles[NameOf(archive, r)] = ContentOf(archive, r)
             /\ ParentPath(NameOf(archive, r)) \in outDirs

\* what list prints for a tree: a line for every directory and for every
\* file that can be opened, in the order of the walk
ListLines(t) ==
    LET w == Written(t, Len(t))
    IN  [i \in 1..Len(w) |->
            [kind |-> IF w[i].dir THEN "Directory" ELSE "File",
             path |-> RelPath(w[i])]]

\* C17: list completeness.  On a container written by create, list returns
\* true having reported, in container order, the path of every DIR record
\* and the name of every FILE record, original and reference alike, and
\* nothing else; list returns false only when the archive cannot be
\* opened.
C17_ListComplete ==
    [][/\ ListEnd => (ret' = TRUE /\ listed' = ListLines(tree))
       /\ (lists' # lists /\ pc' = "idle") => (~present /\ ret' = FALSE)
       /\ (pc = "list" /\ pc' # "list") => ListEnd]_vars

\* list has returned true on a container holding a directory, a file with
\* its data and a reference
C17_Witness ==
    /\ lists = 1 /\ pc = "idle" /\ ret = TRUE /\ creates = 1
    /\ Len(listed) >= 3
    /\ \E i, j \in 1..Len(listed) :
          listed[i].kind = "Directory" /\ listed[j].kind = "File"
    /\ \E r \in FileRecords(archive) : IsReference(archive, r)

-----------------------------------------------------------------------------
(* Properties of extract and list on hand-made containers, continued       *)
(* (specification SpecCrafted).                                            *)

\* the top-level records with a tag the reader knows
KnownRecords(b) ==
    SelectSeq(TopRecords(b),
              LAMBDA r : r.tag \in {FILE_TAG, DIRECTORY_TAG})

\* a container of whole records, some of them with an unknown tag, whose
\* FILE records all carry their own data
WithUnknownRecords(b) ==
    /\ WellFormed(b)
    /\ Len(KnownRecords(b)) < Len(TopRecords(b))
    /\ \A r \in FileRecords(b) : OwnsData(b, r)
    /\ DistinctNames(b)

\* C16: unrecognized top-level tags are skipped.  After list or extract
\* has decoded a top-level header whose tag is neither FILE nor DIR, it is
\* exactly length bytes past the header; and what is listed and extracted
\* from a container with such records is what its FILE and DIR records
\* hold, as if the unknown records were absent.
C16_UnknownTopSkipped ==
    /\ (pc \in {"extract", "list"} /\ entry # NoEntry
        /\ entry.tag \notin {FILE_TAG, DIRECTORY_TAG})
       => stream.pos = entry.at + HeaderSize + entry.length
    /\ (ListDone /\ WithUnknownRecords(archive))
       => /\ ret = TRUE
          /\ listed =
                [i \in 1..Len(KnownRecords(archive)) |->
                    LET r == KnownRecords(archive)[i]
                    IN  IF r.tag = DIRECTORY_TAG
                        THEN [kind |-> "Directory", path |-> r.payload]
                        ELSE [kind |-> "File",
                              path |-> NameOf(archive, r)]]
    /\ (ExtractDone /\ WithUnknownRecords(archive) /\ denied = {})
       => /\ ret = TRUE
          /\ errors = <<>>
          /\ DOMAIN outFiles =
                { NameOf(archive, r) : r \in FileRecords(archive) }
          /\ \A r \in FileRecords(archive) :
                NameOf(archive, r) \in DOMAIN outFiles
                => outFiles[NameOf(archive, r)] = DataOf(archive, r)
          /\ \A r \in DirRecords(archive) : r.payload \in outDirs

\* list and extract have both returned on a container that starts with a
\* record of an unknown tag and a payload of two bytes
C16_Witness ==
    /\ ListDone /\ ExtractDone /\ denied = {}
    /\ WithUnknownRecords(archive)
    /\ TopRecords(archive)[1].tag = UNKNOWN_TAG
    /\ TopRecords(archive)[1].length = 2
    /\ Len(listed) = 2
    /\ DOMAIN outFiles # {}

-----------------------------------------------------------------------------
(* Properties of the runs of main (specification SpecMain).                *)

\* the run asks for create, with its two paths
AsksCreate == Len(argv) = 3 /\ argv[1] = "create"

\* C15: missing input root.  When the input path does not exist, create
\* returns false; the archive file is not created, truncated or written
\* and the fingerprint index does not change.
C15_MissingInputRoot ==
    [][(pc = "call" /\ AsksCreate /\ ~Exists(argv[3]))
       => /\ ret' = FALSE
          /\ pc' = "idle"
          /\ creates' = creates + 1
          /\ UNCHANGED << archive, present, m_files >>]_vars

\* a run has ended that asked for create over an existing archive file
\* with an input path at which nothing exists
C15_Witness ==
    /\ pc = "exited"
    /\ argv = <<"create", ArchivePath, NoPath>>
    /\ creates = 1
    /\ present /\ archive = Sound
    /\ ret = FALSE

\* C19: create accepts an input path that names an existing regular file
\* as well as one that names a directory: the call completes, reports its
\* outcome through its return value and never ends abnormally.
C19_CreateAcceptsFileOrDirectory ==
    (AsksCreate /\ Exists(argv[3]) /\ creates = 1)
    => /\ pc # "aborted"
       /\ pc = "exited" => exitCode = << IF ret THEN 0 ELSE 1 >>

\* the run has the right number of arguments for its command
RightCount ==
    /\ Len(argv) >= 1
    /\ \/ argv[1] \in {"create", "extract"} /\ Len(argv) = 3
       \/ argv[1] = "list" /\ Len(argv) = 2

\* the number of Archive operations the run has called
Invoked == creates + extracts + lists

\* the requested command succeeded: help, or an operation that was called
\* and returned true
Succeeded ==
    /\ Len(argv) >= 1
    /\ \/ argv[1] = "help"
       \/ RightCount /\ Invoked = 1 /\ pc = "exited" /\ ret = TRUE

\* C18: CLI exit code.  The program exits with 0 exactly when the
\* requested command succeeded and with 1 in every other case; with no
\* command, an unknown command or a wrong argument count no Archive
\* operation is called.
C18_ExitCode ==
    (pc \in {"exited", "aborted"})
    => /\ exitCode = << IF Succeeded THEN 0 ELSE 1 >>
       /\ ~RightCount => Invoked = 0

\* whenever main returns, its value is 0 exactly when the command
\* succeeded, and 1 otherwise
ExitCodeWhenMainReturns ==
    pc = "exited"
    => /\ exitCode = << IF Succeeded THEN 0 ELSE 1 >>
       /\ ~RightCount => Invoked = 0

-----------------------------------------------------------------------------
(* Properties that relate the writer's index to the reader's table         *)
(* (specification SpecTwice, defined below).                               *)

\* C21: writer and reader agree on offsets.  After create on a fresh
\* Archive and extract of its container, every file in the index has, in
\* the table the reader built, an entry under its entry offset with the
\* same dataOffset and size; the entry offset is the position of a FILE
\* header and dataOffset is entry offset + 24 + the length of the relative
\* name; every record written with its own data is in the table under its
\* position, and every DATA_REF value in the container is a key of the
\* table.
C21_OffsetsAgree ==
    ExtractedFirstCreate
    => /\ \A fp \in DOMAIN m_files :
             LET w == m_files[fp]
             IN  /\ w.offset \in DOMAIN files
                 /\ w.offset \in DOMAIN files
                    => /\ files[w.offset].dataOffset = w.dataOffset
                       /\ files[w.offset].size = w.size
                 /\ w.offset + HeaderSize <= Len(archive)
                 /\ w.offset + HeaderSize <= Len(archive)
                    => HeaderAt(archive, w.offset).tag = FILE_TAG
                 /\ w.dataOffset = w.offset + 3 * HeaderSize
                                   + Len(toRelativePath(InPath, w.name))
       /\ \A r \in FileRecords(archive) :
             /\ OwnsData(archive, r)
                => /\ r.at \in DOMAIN files
                   /\ r.at \in DOMAIN files
                      => /\ files[r.at].dataOffset
                            = r.at + 3 * HeaderSize + Len(NameOf(archive, r))
                         /\ files[r.at].size = Len(DataOf(archive, r))
             /\ IsReference(archive, r)
                => RefOf(archive, r) \in DOMAIN files

\* create and extract have returned; the index holds two files, one of
\* them not at the start of the container, and the container holds a
\* reference
C21_Witness ==
    /\ ExtractedFirstCreate
    /\ Cardinality(DOMAIN m_files) >= 2
    /\ \E fp \in DOMAIN m_files : m_files[fp].offset > 0
    /\ \E r \in FileRecords(archive) : IsReference(archive, r)

-----------------------------------------------------------------------------
(* The writer alone, on trees whose files include pairs with one           *)
(* fingerprint that compareFiles tells apart (specification SpecWriter).   *)

\* contents of one fingerprint: <<2>> and <<2, 2>> differ in the first
\* chunk, one of them shorter than the chunk
WriterContents == { <<>>, <<2>>, <<2, 2>>, <<1, 2>> }

\* the walks d, a, b, d/c and a, b with files of these contents
WriterTrees ==
    { << DirEntry(<<100>>), FileEntry(<<97>>, c1, TRUE),
         FileEntry(<<98>>, c2, TRUE), FileEntry(<<100, 47, 99>>, c3, TRUE) >> :
        c1 \in WriterContents, c2 \in WriterContents, c3 \in WriterContents }
    \cup { << FileEntry(<<97>>, c1, TRUE), FileEntry(<<98>>, c2, TRUE) >> :
             c1 \in WriterContents, c2 \in WriterContents }

InitWriter ==
    /\ tree \in WriterTrees
    /\ m_files = EmptyMap
    /\ archive = <<>>
    /\ present = FALSE
    /\ pc = "idle"
    /\ walk = 0
    /\ stream = NewStream
    /\ entry = NoEntry
    /\ files = EmptyMap
    /\ done = {}
    /\ outDirs = {}
    /\ outFiles = EmptyMap
    /\ denied = {}
    /\ errors = <<>>
    /\ listed = <<>>
    /\ ret = TRUE
    /\ creates = 0
    /\ extracts = 0
    /\ lists = 0
    /\ argv = <<>>
    /\ exitCode = <<>>
    /\ wide = WideStart

NextWriter ==
    \/ CreateBegin
    \/ CreateDirectory
    \/ CreateFile
    \/ CreateEnd

SpecWriter == InitWriter /\ [][NextWriter]_vars

\* the top-level records of b written with their own data whose data has
\* the fingerprint fp, by their index in the container
OriginalsOf(b, fp) ==
    { i \in 1..Len(TopRecords(b)) :
        LET r == TopRecords(b)[i]
        IN  /\ r.tag = FILE_TAG
            /\ OwnsData(b, r)
            /\ XXH64(DataOf(b, r)) = fp }

\* the last of them
LastOriginal(b, fp) ==
    TopRecords(b)[CHOOSE i \in OriginalsOf(b, fp) :
                     \A j \in OriginalsOf(b, fp) : j <= i]

\* the index holds, for each fingerprint, the last record written with its
\* own data of that fingerprint, and every such record holds its file
IndexHoldsLatest ==
    /\ WellFormed(archive)
    /\ \A fp \in 0..(FpMod - 1) :
          /\ fp \in DOMAIN m_files <=> OriginalsOf(archive, fp) # {}
          /\ (fp \in DOMAIN m_files /\ OriginalsOf(archive, fp) # {})
             => LET r == LastOriginal(archive, fp)
                IN  /\ m_files[fp].offset = r.at
                    /\ m_files[fp].name = FullPath(NameOf(archive, r))
                    /\ m_files[fp].size = Len(DataOf(archive, r))
    /\ \A r \in FileRecords(archive) :
          OwnsData(archive, r)
          => DataOf(archive, r) = TreeData(tree, NameOf(archive, r))

\* the record a step of create appended to the container
Appended == HeaderAt(archive', Len(archive))

\* C22: single-slot index with overwrite.  During a create on a fresh
\* Archive the index maps each fingerprint to the file most recently
\* written as original data with that fingerprint, and every record written
\* with its own data keeps its bytes; a step of any create that writes a
\* back-reference leaves the index unchanged, a step that writes original
\* data changes the one slot of its fingerprint, and every step leaves the
\* bytes already in the container as they are.
C22_SingleSlotIndex ==
    /\ [](FirstCreate => IndexHoldsLatest)
    /\ [][(pc = "create" /\ pc' = "create")
          => /\ SubSeq(archive', 1, Len(archive)) = archive
             /\ Len(archive') > Len(archive)
                => LET r  == [at |-> Len(archive), tag |-> Appended.tag,
                              length |-> Appended.length,
                              payload |-> SubSeq(archive',
                                                 Len(archive) + HeaderSize + 1,
                                                 Len(archive'))]
                       fp == XXH64(tree[walk].data)
                   IN  /\ r.tag = DIRECTORY_TAG => m_files' = m_files
                       /\ (r.tag = FILE_TAG /\ IsReference(archive', r))
                          => m_files' = m_files
                       /\ (r.tag = FILE_TAG /\ OwnsData(archive', r))
                          => /\ DOMAIN m_files' = DOMAIN m_files \cup {fp}
                             /\ m_files'[fp].offset = r.at
                             /\ \A g \in DOMAIN m_files :
                                   g # fp => m_files'[g] = m_files[g]]_vars

\* in a first create a file has replaced another under one fingerprint,
\* both records are in the container, and a reference was written after
C22_Witness ==
    /\ FirstCreate
    /\ \E fp \in DOMAIN m_files :
          /\ Cardinality(OriginalsOf(archive, fp)) >= 2
          /\ \E r \in FileRecords(archive) :
                /\ IsReference(archive, r)
                /\ r.at > m_files[fp].offset
                /\ RefOf(archive, r) = m_files[fp].offset

\* the path p lies below the input root
BelowInPath(p) ==
    /\ Len(p) > Len(InPath) + 1
    /\ SubSeq(p, 1, Len(InPath) + 1) = InPath \o <<47>>

\* C23: names stored in the container are relative to the input root.
\* Every DIR payload and every NAME payload create writes, for a file
\* written with its data and for a back-reference alike, is the path of
\* the entry without the input path and the separator after it; the index
\* keeps the full path, at which the filesystem finds the file.
C23_NamesRelative ==
    creates >= 1
    => LET top == TopRecords(archive)
           was == Passed
       IN  /\ Len(top) = Len(was)
           /\ \A i \in 1..Len(was) :
                 i <= Len(top)
                 => LET r == top[i]
                        e == was[i]
                    IN  IF e.dir
                        THEN /\ r.tag = DIRECTORY_TAG
                             /\ InPath \o <<47>> \o r.payload = e.path
                        ELSE /\ r.tag = FILE_TAG
                             /\ Cardinality(SubsOf(archive, r, NAME_TAG)) = 1
                             /\ Cardinality(SubsOf(archive, r, NAME_TAG)) = 1
                                => InPath \o <<47>> \o NameOf(archive, r)
                                   = e.path
           /\ \A fp \in DOMAIN m_files :
                 /\ BelowInPath(m_files[fp].name)
                 /\ FsHasFile(tree, m_files[fp].name)

\* create has returned; the container holds a DIR record, a file below
\* that directory written with its data and a back-reference
C23_Witness ==
    /\ creates >= 1 /\ pc = "idle"
    /\ DirRecords(archive) # {}
    /\ \E r, q \in FileRecords(archive) :
          /\ OwnsData(archive, r)
          /\ IsReference(archive, q)
          /\ Slashes(NameOf(archive, r)) \cup Slashes(NameOf(archive, q)) # {}

-----------------------------------------------------------------------------
(* The decoder on arbitrary bytes (specification SpecDecode): containers   *)
(* put together from headers and payloads in any order, so that lengths    *)
(* exceed what follows and headers are read out of step.                   *)

MaxChunks == 3

\* a FILE header, records whose length is more than their payload, a
\* DATA_REF without its value and an unknown record without its payload:
\* what follows a chunk is read in its place, out of step
DecodeChunks ==
    { TlvEntry(FILE_TAG, 16),
      TlvEntry(NAME_TAG, 1) \o <<120>>,
      TlvEntry(DATA_TAG, 2) \o <<7>>,
      TlvEntry(DIRECTORY_TAG, 2) \o <<100>>,
      TlvEntry(DATA_REF_TAG, 4),
      TlvEntry(UNKNOWN_TAG, 3) }

\* the byte sequences made of at most n chunks
RECURSIVE Chunked(_)
Chunked(n) ==
    IF n = 0 THEN { <<>> }
    ELSE Chunked(n - 1)
         \cup { b \o c : b \in Chunked(n - 1), c \in DecodeChunks }

\* a FILE header of length 16 and a sub-record header of an unknown tag
\* with length 2^32 - 8: adding it to bytesRead = 8 gives 2^32
WrapHead ==
    TlvEntry(FILE_TAG, 16) \o <<248, 255, 255, 255>> \o LE32(UNKNOWN_TAG)

DecodeContainers ==
    Chunked(MaxChunks) \cup { WrapHead \o b : b \in Chunked(MaxChunks - 1) }

InitDecode ==
    /\ tree = <<>>
    /\ m_files = EmptyMap
    /\ archive \in DecodeContainers
    /\ present = TRUE
    /\ pc = "idle"
    /\ walk = 0
    /\ stream = NewStream
    /\ entry = NoEntry
    /\ files = EmptyMap
    /\ done = {}
    /\ outDirs = {}
    /\ outFiles = EmptyMap
    /\ denied = {}
    /\ errors = <<>>
    /\ listed = <<>>
    /\ ret = TRUE
    /\ creates = 0
    /\ extracts = 0
    /\ lists = 0
    /\ argv = <<>>
    /\ exitCode = <<>>
    /\ wide = WideStart

\* the one call of a run of the program: extract
DecodeExtract ==
    /\ pc = "idle"
    /\ extracts = 0 /\ lists = 0
    /\ ExtractCall(ArchivePath, OutPath)

\* the one call of a run of the program: list
DecodeList ==
    /\ pc = "idle"
    /\ extracts = 0 /\ lists = 0
    /\ ListCall(ArchivePath)

NextDecode ==
    \/ DecodeExtract
    \/ ExtractRecord
    \/ ExtractEndOfRecords
    \/ ExtractFile
    \/ ExtractEnd
    \/ DecodeList
    \/ ListRecord
    \/ ListEnd

\* a call that has begun runs on: the loops take their next step
SpecDecode == InitDecode /\ [][NextDecode]_vars /\ WF_vars(NextDecode)

\* C24: decoding terminates.  On every container, whole, cut short or
\* out of step, also when a length exceeds the bytes that remain or makes
\* the 32-bit bytesRead counter wrap, the top-level loop of extract and the
\* top-level loop of list come to their end; every iteration, with the
\* whole sub-record loop of readFile inside it, has read a header that was
\* there and leaves the stream at least a header further on.
C24_DecodingTerminates ==
    /\ (pc = "extract") ~> (pc \in {"extractFiles", "aborted"})
    /\ (pc = "list") ~> (pc = "idle")
    /\ [][(pc \in {"extract", "list"} /\ pc' = pc)
          => /\ stream.pos + HeaderSize <= Len(archive)
             /\ stream'.pos >= stream.pos + HeaderSize]_vars

\* extract has returned on a container that begins with WrapHead: the
\* counter wrapped, the loop of readFile went on and read the NAME
\* sub-record behind it
C24_Witness ==
    /\ pc = "idle" /\ extracts = 1
    /\ Len(archive) > Len(WrapHead)
    /\ SubSeq(archive, 1, Len(WrapHead)) = WrapHead
    /\ 0 \in DOMAIN files
    /\ files[0].name = <<120>>

-----------------------------------------------------------------------------
(* Properties of a run of the program on an archive file that cannot be    *)
(* opened (specification SpecMain).                                        *)

\* the run asks for extract or list, with the right number of arguments
AsksRead == RightCount /\ argv[1] \in {"extract", "list"}

\* C25: unopenable archive.  When the archive file cannot be opened for
\* reading, list and extract return false without entering their loops,
\* and extract creates neither the output root nor any directory or file
\* under it.
C25_UnopenableArchive ==
    (AsksRead /\ ~CanRead(argv[2]))
    => /\ pc \notin {"extract", "extractFiles", "list", "aborted"}
       /\ pc \in {"idle", "exited"} => (Invoked = 1 /\ ret = FALSE)
       /\ pc = "exited" => exitCode = <<1>>
       /\ outDirs = {}
       /\ outFiles = EmptyMap
       /\ listed = <<>>

\* a run has ended that asked for extract from a path at which no archive
\* file can be opened
C25_Witness ==
    /\ pc = "exited"
    /\ argv = <<"extract", BadPath, OutPath>>
    /\ extracts = 1
    /\ ret = FALSE
    /\ outDirs = {}

-----------------------------------------------------------------------------
(* Properties of extract and list between creates on one Archive object    *)
(* (specification Spec).                                                   *)

\* the step is a step of an extract or list call: its beginning, or a step
\* of its loops
ReaderStep ==
    \/ extracts' # extracts
    \/ lists' # lists
    \/ pc \in {"extract", "extractFiles", "list"}

\* C26: list and extract leave the fingerprint index unchanged.  Every
\* step of a list or extract call, in any interleaving with create calls
\* on the same object, leaves m_files, the container and the state of the
\* walk as they are; the table of an extract call starts empty when the
\* call begins and no step of create touches it.
C26_ReadersLeaveIndex ==
    [][/\ ReaderStep => UNCHANGED << m_files, archive, present, walk,
                                     creates, tree >>
       /\ (extracts' # extracts /\ pc' = "extract") => files' = EmptyMap
       /\ ~ReaderStep => UNCHANGED files]_vars

\* two creates, an extract and a list have run on one object whose index
\* holds a file, and the extract built a table
C26_Witness ==
    /\ creates = 2 /\ extracts = 1 /\ lists = 1
    /\ pc = "idle"
    /\ m_files # EmptyMap
    /\ files # EmptyMap
    /\ listed # <<>>

-----------------------------------------------------------------------------
(* The arithmetic of the writer on large inputs (specification SpecWide).  *)
(* A file is its size, the length of its relative name and its             *)
(* fingerprint; the stream is its position.  Beside each value the code    *)
(* computes, the records keep the true count or position it stands for     *)
(* (bytes, at, target).                                                    *)

MaxWideFiles == 3

\* file sizes: 5, 2^32 - 20, 2^32 and 2^32 + 5 bytes
WideSizes ==
    { Wide(0, 5), [top |-> 0, hi |-> 65535, lo |-> 65516],
      Wide(1, 0), Wide(1, 5) }

\* lengths of the relative names
WideNames == { 1, 4 }

\* the else branch of Archive::addFile on a file of this size; fp is its
\* fingerprint
WideAddFile(size, nameLength, fp) ==
    LET fileOffset == Cast32(wide.pos)
        fileSize   == Cast32(size)
        length     == getTlvSize(<<U32(nameLength), fileSize>>)
        dataStart  == AddWide(wide.pos, Wide(0, 3 * HeaderSize + nameLength))
        dataOffset == Cast32(dataStart)
    IN  wide' = [pos   |-> AddWide(dataStart, size),
                 recs  |-> Append(wide.recs,
                               [owns |-> TRUE, at |-> wide.pos,
                                nameLength |-> nameLength, bytes |-> size,
                                length |-> length, data |-> fileSize,
                                ref |-> U32(0), target |-> wide.pos]),
                 index |-> Put(wide.index, fp,
                               [size |-> fileSize, offset |-> fileOffset,
                                dataOffset |-> dataOffset,
                                at |-> wide.pos])]

\* Archive::addDuplicateFile for a file whose fingerprint is in the index
WideAddDuplicateFile(nameLength, fp) ==
    LET fileEntry == wide.index[fp]
        length    == getTlvSize(<<U32(nameLength), U32(RefSize)>>)
    IN  wide' = [wide EXCEPT
                   !.pos  = AddWide(wide.pos,
                                Wide(0, 3 * HeaderSize + nameLength
                                        + RefSize)),
                   !.recs = Append(wide.recs,
                                [owns |-> FALSE, at |-> wide.pos,
                                 nameLength |-> nameLength,
                                 bytes |-> Wide(0, RefSize),
                                 length |-> length, data |-> U32(RefSize),
                                 ref |-> fileEntry.offset,
                                 target |-> fileEntry.at])]

otherVars == << tree, m_files, archive, present, pc, walk, stream, entry,
               files, done, outDirs, outFiles, denied, errors, listed, ret,
               creates, extracts, lists, argv, exitCode >>

\* create adds a file that findDuplicate does not find in the index
WideOriginal ==
    /\ Len(wide.recs) < MaxWideFiles
    /\ \E size \in WideSizes, nameLength \in WideNames,
          fp \in 0..(FpMod - 1) :
          WideAddFile(size, nameLength, fp)
    /\ UNCHANGED otherVars

\* create adds a file that findDuplicate finds in the index
WideDuplicate ==
    /\ Len(wide.recs) < MaxWideFiles
    /\ \E nameLength \in WideNames, fp \in DOMAIN wide.index :
          WideAddDuplicateFile(nameLength, fp)
    /\ UNCHANGED otherVars

NextWide ==
    \/ WideOriginal
    \/ WideDuplicate

InitWide ==
    /\ wide = WideStart
    /\ tree = <<>>
    /\ m_files = EmptyMap
    /\ archive = <<>>
    /\ present = FALSE
    /\ pc = "idle"
    /\ walk = 0
    /\ stream = NewStream
    /\ entry = NoEntry
    /\ files = EmptyMap
    /\ done = {}
    /\ outDirs = {}
    /\ outFiles = EmptyMap
    /\ denied = {}
    /\ errors = <<>>
    /\ listed = <<>>
    /\ ret = TRUE
    /\ creates = 0
    /\ extracts = 0
    /\ lists = 0
    /\ argv = <<>>
    /\ exitCode = <<>>

SpecWide == InitWide /\ [][NextWide]_vars

\* C27: no 32-bit truncation in what create writes.  For every file size
\* and every stream position, the DATA length is the number of bytes of
\* the file, the FILE length is the number of bytes of its sub-records,
\* the entry offset in the index is the position of the FILE header, and
\* the value of a DATA_REF is the position of the record it refers to.
C27_NoTruncation ==
    /\ \A i \in 1..Len(wide.recs) :
          LET r == wide.recs[i]
          IN  /\ Widen(r.data) = r.bytes
              /\ Widen(r.length)
                 = AddWide(Wide(0, 2 * HeaderSize + r.nameLength), r.bytes)
              /\ Widen(r.ref) = IF r.owns THEN Wide(0, 0) ELSE r.target
    /\ \A fp \in DOMAIN wide.index :
          Widen(wide.index[fp].offset) = wide.index[fp].at

-----------------------------------------------------------------------------
(* Extract run again on the same container and output root                 *)
(* (specification SpecTwice): creates first, then extract calls only, on   *)
(* a container create wrote or on one of the given containers.             *)

MaxRepeats == 2

\* a create call before the first extract call
CreateBeforeExtract ==
    /\ extracts = 0
    /\ CreateBegin

\* an extract call on the Archive object, the first or a later one
ExtractAgain ==
    /\ pc = "idle"
    /\ extracts < MaxRepeats
    /\ ExtractCall(ArchivePath, OutPath)

NextTwice ==
    \/ CreateBeforeExtract
    \/ CreateDirectory
    \/ CreateFile
    \/ CreateEnd
    \/ ExtractAgain
    \/ ExtractRecord
    \/ ExtractEndOfRecords
    \/ ExtractFile
    \/ ExtractEnd

InitTwice == InitWriter \/ InitCrafted

SpecTwice == InitTwice /\ [][NextTwice]_vars

\* C28: extract is idempotent.  Every step of a second or later extract
\* of the same container into the same output root finds the directories
\* it makes already there and writes every file with the bytes it already
\* has, so the output root stays as the first extract left it; no call
\* ends abnormally and each returns true.
C28_ExtractIdempotent ==
    [][/\ (present /\ extracts' >= 2)
          => UNCHANGED << outDirs, outFiles >>
       /\ (present /\ extracts' >= 1)
          => /\ pc' # "aborted"
             /\ pc' = "idle" => ret' = TRUE]_vars

\* The statement of C28 for the containers a create of this Archive
\* object wrote.
IdempotentOnCreated ==
    [][(creates >= 1 /\ present /\ extracts' >= 2)
       => /\ UNCHANGED << outDirs, outFiles >>
          /\ pc' # "aborted"
          /\ pc' = "idle" => ret' = TRUE]_vars

====
